---- MODULE Spec2Model ----
(***************************************************************************)
(* The typing-assessment session controller of                             *)
(* frontend/src/components/TypingGame.tsx as a state machine.              *)
(*                                                                         *)
(* The React state of the component, the session storage it threads its    *)
(* cross-phase data through, the route, the wall clock and the             *)
(* continuations that are waiting on a timer or on a remote reply are the  *)
(* variables.  Every handler is cut at its awaits: the synchronous part of *)
(* a handler is one action, and each continuation after an await is one    *)
(* action that carries the values its closure captured.                    *)
(*                                                                         *)
(* Strings are sequences of one-character strings, so that trimming,       *)
(* lower-casing and the index-wise comparison are computed as the code     *)
(* computes them.  The startTime state is number | null in the source; the *)
(* clock never reads 0, so 0 stands for null (the guard !startTime is true *)
(* of both).                                                               *)
(***************************************************************************)
EXTENDS Integers, Sequences, FiniteSets, TLC

VARIABLES
    currentWord, input, results, wordCount, loading, error, difficulty,
    accuracy, totalMistakes, childData, message, isGeneratingWord,
    startTime, phase, analysis, savingOnClose,
    storage, route, effectPending, now, tasks, requests,
    displayedAt, submitted, attemptLog, lastOp

reactState == <<currentWord, input, results, wordCount, loading, error,
                difficulty, accuracy, totalMistakes, childData, message,
                isGeneratingWord, startTime, phase, analysis, savingOnClose>>

history == <<displayedAt, submitted, attemptLog, lastOp>>

vars == <<reactState, storage, route, effectPending, now, tasks, requests, history>>

(***************************************************************************)
(* Program constants.                                                      *)
(***************************************************************************)
TOTAL_WORDS == 5
WORD_DISPLAY_DELAY == 1000
FEEDBACK_DELAY == 1500
AI_THINKING_DELAY == 2000
NEXT_WORD_DELAY == 1600
NAVIGATE_DELAY == 3000

(***************************************************************************)
(* Bounds of the model.                                                    *)
(***************************************************************************)
\* The clock advances in steps of TickMs and stops at MaxTime.
TickMs == 500
MaxTime == 2000
\* The user submits the form at most MaxSubmits times.
MaxSubmits == 6
\* The words and texts the scoring is applied to have at most MaxLen characters.
MaxLen == 3
\* The rolling accuracy is followed over at most MaxScored attempts.
MaxScored == 3

(***************************************************************************)
(* Values.                                                                 *)
(***************************************************************************)
None == <<>>
Some(x) == <<x>>

Cat == <<"c", "a", "t">>
Dog == <<"d", "o", "g">>
Sun == <<"s", "u", "n">>
Tree == <<"t", "r", "e", "e">>
Book == <<"b", "o", "o", "k">>

\* The pool generateNextWord falls back to.
fallbackWords == <<Cat, Dog, Sun, Tree, Book>>

\* Words the word service answers with (its choice is opaque to the component).
ServerWords == {Cat, Sun, Book, <<"D", "o", "g">>}

\* Batches the targeted-words service answers with.
ServerBatches == {<<Cat, Sun, Book, Dog, Tree>>, <<Sun, Cat>>, <<>>}

\* Texts the user leaves in the input box.
Inputs == {<<>>, <<" ">>, Cat, <<" ", "C", "a", "t", " ">>, <<"s", "o", "n">>,
           <<"b", "o">>, <<"d", "o", "g">>}

\* Diagnoses the analysis service answers with.
Diagnoses == {"diagnosis"}

\* What sessionStorage holds under 'childData' when the component mounts.
StoredChildData == {"absent", "malformed", "otherGame", "typing"}

(***************************************************************************)
(* String operations.                                                      *)
(***************************************************************************)
\* String.prototype.toLowerCase, on the characters the model uses.
LowerChar(c) ==
    CASE c = "C" -> "c"
      [] c = "D" -> "d"
      [] OTHER -> c

toLowerCase(s) == [i \in 1..Len(s) |-> LowerChar(s[i])]

RECURSIVE TrimStart(_)
TrimStart(s) ==
    IF s /= <<>> /\ Head(s) = " " THEN TrimStart(Tail(s)) ELSE s

RECURSIVE TrimEnd(_)
TrimEnd(s) ==
    IF s /= <<>> /\ s[Len(s)] = " " THEN TrimEnd(SubSeq(s, 1, Len(s) - 1)) ELSE s

\* String.prototype.trim.
trim(s) == TrimEnd(TrimStart(s))

Max(a, b) == IF a >= b THEN a ELSE b
Min(a, b) == IF a <= b THEN a ELSE b

\* s[i] of the source, 0-based there and 1-based here; past the end it is
\* undefined, which differs from every character.
CharAt(s, i) == IF i <= Len(s) THEN s[i] ELSE "undefined"

\* The loop of handleSubmit that counts the mistakes of one word, from
\* index i on: for (i < Math.max(...)) if (userWord[i] !== targetWord[i]) ++.
RECURSIVE mistakesFrom(_, _, _)
mistakesFrom(userWord, targetWord, i) ==
    IF i > Max(Len(userWord), Len(targetWord))
    THEN 0
    ELSE (IF CharAt(userWord, i) /= CharAt(targetWord, i) THEN 1 ELSE 0)
         + mistakesFrom(userWord, targetWord, i + 1)

\* The loop bounded by the shorter word: the positions past its end are
\* not counted.
RECURSIVE overlapMistakesFrom(_, _, _)
overlapMistakesFrom(userWord, targetWord, i) ==
    IF i > Min(Len(userWord), Len(targetWord))
    THEN 0
    ELSE (IF userWord[i] /= targetWord[i] THEN 1 ELSE 0)
         + overlapMistakesFrom(userWord, targetWord, i + 1)

wordMistakesOverlap(userWord, targetWord) == overlapMistakesFrom(userWord, targetWord, 1)

wordMistakesOf(userWord, targetWord) == mistakesFrom(userWord, targetWord, 1)

(***************************************************************************)
(* Accuracy is a JavaScript number; the model keeps it exact, as a         *)
(* fraction <<numerator, denominator>> in lowest terms.                    *)
(***************************************************************************)
RECURSIVE Gcd(_, _)
Gcd(a, b) == IF b = 0 THEN a ELSE Gcd(b, a % b)

Frac(n, d) == LET g == Gcd(n, d) IN IF g = 0 THEN <<0, 1>> ELSE <<n \div g, d \div g>>

FracGeq(f, k) == f[1] >= k * f[2]
FracLt(f, k) == f[1] < k * f[2]

\* (1 - wordMistakes / targetWord.length) * 100, without the clamp.
newAccuracyUnclamped(mistakes, len) == <<(len - mistakes) * 100, len>>

\* Math.max(0, Math.min(100, (1 - wordMistakes / targetWord.length) * 100)).
\* A target word is never empty here: the guard of handleSubmit rejects it.
newAccuracyOf(mistakes, len) ==
    IF mistakes >= len THEN <<0, 1>> ELSE Frac((len - mistakes) * 100, len)

\* prev => (prev + newAccuracy) / 2
rollingAverage(prev, new) ==
    Frac(prev[1] * new[2] + new[1] * prev[2], 2 * prev[2] * new[2])

(***************************************************************************)
(* Sequences of continuations.                                             *)
(***************************************************************************)
RemoveAt(s, i) == SubSeq(s, 1, i - 1) \o SubSeq(s, i + 1, Len(s))

\* The component is mounted as long as nothing has navigated away from it.
Mounted == route = "game"

\* The render returns the card (with the close button) unless there is no
\* child data or the first word is still loading.
CardRendered == Mounted /\ childData /\ ~(loading /\ wordCount = 0)

\* The form is rendered when no word is being generated.
FormRendered == CardRendered /\ ~isGeneratingWord

\* disabled={loading || isGeneratingWord} of the text input.
InputEnabled == FormRendered /\ ~loading

\* disabled={loading || isGeneratingWord || input.trim() === ''} of the button.
SubmitEnabled == FormRendered /\ ~loading /\ trim(input) /= <<>>

(***************************************************************************)
(* Init: the state the useState initialisers leave, before the effect.     *)
(***************************************************************************)
Init ==
    /\ currentWord = <<>>
    /\ input = <<>>
    /\ results = <<>>
    /\ wordCount = 0
    /\ loading = TRUE
    /\ error = "null"
    /\ difficulty = "easy"
    /\ accuracy = <<100, 1>>
    /\ totalMistakes = 0
    /\ childData = FALSE
    /\ message = "null"
    /\ isGeneratingWord = FALSE
    /\ startTime = 0
    /\ phase = "initial"
    /\ analysis = None
    /\ savingOnClose = FALSE
    /\ storage \in [childData : StoredChildData, targetedWords : {None},
                    targetedWordIndex : {None}, firstSetResults : {None}]
    /\ route = "game"
    /\ effectPending = TRUE
    /\ now = TickMs
    /\ tasks = <<>>
    /\ requests = <<>>
    /\ displayedAt = 0
    /\ submitted = 0
    /\ attemptLog = <<>>
    /\ lastOp = "init"

(***************************************************************************)
(* The clock.                                                              *)
(***************************************************************************)
Tick ==
    /\ now + TickMs <= MaxTime
    /\ now' = now + TickMs
    /\ UNCHANGED <<reactState, storage, route, effectPending, tasks, requests, history>>

(***************************************************************************)
(* useEffect on mount, with the synchronous part of generateInitialWord.   *)
(***************************************************************************)
Mount ==
    /\ effectPending
    /\ effectPending' = FALSE
    /\ lastOp' = "mount"
    /\ CASE storage.childData \in {"absent", "malformed"} ->
              /\ route' = "/child-login"
              /\ UNCHANGED <<childData, loading, error, tasks, requests>>
         [] storage.childData = "otherGame" ->
              /\ childData' = TRUE
              /\ route' = "/landing"
              /\ UNCHANGED <<loading, error, tasks, requests>>
         [] OTHER ->
              /\ childData' = TRUE
              /\ loading' = TRUE
              /\ error' = "null"
              /\ tasks' = Append(tasks, [kind |-> "initialWord"])
              /\ requests' = Append(requests, [kind |-> "generate-initial-word"])
              /\ UNCHANGED route
    /\ UNCHANGED <<currentWord, input, results, wordCount, difficulty, accuracy,
                   totalMistakes, message, isGeneratingWord, startTime, phase,
                   analysis, savingOnClose, storage, now,
                   displayedAt, submitted, attemptLog>>

\* generateInitialWord after its awaits: the reply, or the catch.
InitialWordResolve ==
    \E i \in 1..Len(tasks) :
       /\ tasks[i].kind = "initialWord"
       /\ tasks' = RemoveAt(tasks, i)
       /\ \/ \E w \in ServerWords :
                /\ currentWord' = w
                /\ loading' = FALSE
                /\ displayedAt' = now
                /\ lastOp' = "initialWordShown"
                /\ UNCHANGED error
          \/ \E e \in {"Failed to generate word", "Network error"} :
                /\ error' = e
                /\ loading' = FALSE
                /\ lastOp' = "initialWordFailed"
                /\ UNCHANGED <<currentWord, displayedAt>>
       /\ UNCHANGED <<input, results, wordCount, difficulty, accuracy, totalMistakes,
                      childData, message, isGeneratingWord, startTime, phase,
                      analysis, savingOnClose, storage, route, effectPending, now,
                      requests, submitted, attemptLog>>

(***************************************************************************)
(* onChange of the text input.                                             *)
(***************************************************************************)
TypeInput ==
    /\ InputEnabled
    /\ \E s \in Inputs : s /= input /\ input' = s
    /\ lastOp' = "typed"
    /\ UNCHANGED <<currentWord, results, wordCount, loading, error, difficulty,
                   accuracy, totalMistakes, childData, message, isGeneratingWord,
                   startTime, phase, analysis, savingOnClose, storage, route,
                   effectPending, now, tasks, requests, displayedAt, submitted,
                   attemptLog>>

\* The guard with its test of the text alone.
SubmitRejectedTextOnly == trim(input) = <<>>

(***************************************************************************)
(* handleSubmit, up to its first await.                                    *)
(***************************************************************************)
\* The guard of handleSubmit: no word, no text, or no timer started.
SubmitRejected ==
    currentWord = <<>> \/ trim(input) = <<>> \/ startTime = 0

\* The attempt handleSubmit builds from the state its closure captured.
entryOf(word, text, start, end) ==
    LET userWord == toLowerCase(trim(text))
        targetWord == toLowerCase(word)
    IN  [word |-> word,
         input |-> userWord,
         correct |-> (userWord = targetWord),
         timeSpent |-> end - start,
         mistakes |-> wordMistakesOf(userWord, targetWord)]

\* The check that ends a set: the count after this attempt.
SetComplete(count) == count + 1 >= TOTAL_WORDS

\* What handleSubmit leaves waiting: the timer that clears the feedback, and
\* then the analysis, the final save, or the timer of the next word.  The
\* next-word timer runs the generateNextWord of the render that submitted, so
\* it carries that render's results, phase and difficulty.
continuationsOf(newResults) ==
    <<[kind |-> "clearMessage", due |-> now + FEEDBACK_DELAY]>> \o
    (IF SetComplete(wordCount)
     THEN IF phase = "initial" /\ childData
          THEN <<[kind |-> "analysisDelay", due |-> now + AI_THINKING_DELAY,
                  newResults |-> newResults]>>
          ELSE IF phase = "targeted" /\ childData
          THEN <<[kind |-> "finishDelay", due |-> now + AI_THINKING_DELAY,
                  newResults |-> newResults, analysis |-> analysis]>>
          ELSE <<>>
     ELSE <<[kind |-> "nextWordTimer", due |-> now + NEXT_WORD_DELAY,
             results |-> results, phase |-> phase, difficulty |-> difficulty]>>)

HandleSubmit ==
    /\ SubmitEnabled
    /\ submitted < MaxSubmits
    /\ submitted' = IF currentWord /= <<>> THEN submitted + 1 ELSE submitted
    /\ IF SubmitRejected
       THEN /\ lastOp' = "submitRejected"
            /\ UNCHANGED <<reactState, tasks, attemptLog>>
       ELSE LET entry == entryOf(currentWord, input, startTime, now)
                newResults == Append(results, entry)
            IN  /\ totalMistakes' = totalMistakes + entry.mistakes
                /\ accuracy' = rollingAverage(accuracy,
                                   newAccuracyOf(entry.mistakes, Len(currentWord)))
                /\ results' = newResults
                /\ input' = <<>>
                /\ wordCount' = wordCount + 1
                /\ message' = IF SetComplete(wordCount) /\ childData
                                 /\ phase \in {"initial", "targeted"}
                              THEN IF phase = "initial" THEN "analyzing" ELSE "completing"
                              ELSE "feedback"
                /\ phase' = IF SetComplete(wordCount) /\ phase = "initial" /\ childData
                            THEN "analyzing" ELSE phase
                /\ tasks' = tasks \o continuationsOf(newResults)
                /\ attemptLog' = Append(attemptLog, entry)
                /\ lastOp' = "submitRecorded"
                /\ UNCHANGED <<currentWord, loading, error, difficulty, childData,
                               isGeneratingWord, startTime, analysis, savingOnClose>>
    /\ UNCHANGED <<storage, route, effectPending, now, requests, displayedAt>>

(***************************************************************************)
(* A press on the submit button, or Enter in the input, while the button   *)
(* is disabled: the form raises no submit event, handleSubmit is not run.  *)
(***************************************************************************)
SubmitBlocked ==
    /\ FormRendered
    /\ ~SubmitEnabled
    /\ lastOp' = "submitBlocked"
    /\ UNCHANGED <<reactState, storage, route, effectPending, now, tasks, requests,
                   displayedAt, submitted, attemptLog>>

(***************************************************************************)
(* onClick of the close button, up to its await.  With no result to save   *)
(* nothing is awaited and the finally block runs in the same step.         *)
(***************************************************************************)
CloseClick ==
    /\ CardRendered
    /\ IF savingOnClose
       THEN /\ lastOp' = "closeIgnored"
            /\ UNCHANGED <<savingOnClose, route, tasks, requests>>
       ELSE IF Len(results) > 0 /\ childData
       THEN /\ savingOnClose' = TRUE
            /\ requests' = Append(requests, [kind |-> "save-typing-results",
                                             results |-> results, by |-> "close"])
            /\ tasks' = Append(tasks, [kind |-> "closeSave"])
            /\ lastOp' = "closeSaving"
            /\ UNCHANGED route
       ELSE /\ savingOnClose' = FALSE
            /\ route' = "/landing"
            /\ lastOp' = "closed"
            /\ UNCHANGED <<tasks, requests>>
    /\ UNCHANGED <<currentWord, input, results, wordCount, loading, error,
                   difficulty, accuracy, totalMistakes, childData, message,
                   isGeneratingWord, startTime, phase, analysis, storage,
                   effectPending, now, displayedAt, submitted, attemptLog>>

\* The close handler after its await: the finally block.
CloseSaveResolve ==
    \E i \in 1..Len(tasks) :
       /\ tasks[i].kind = "closeSave"
       /\ tasks' = RemoveAt(tasks, i)
       /\ savingOnClose' = FALSE
       /\ route' = "/landing"
       /\ lastOp' = "closed"
       /\ UNCHANGED <<currentWord, input, results, wordCount, loading, error,
                      difficulty, accuracy, totalMistakes, childData, message,
                      isGeneratingWord, startTime, phase, analysis, storage,
                      effectPending, now, requests, displayedAt, submitted,
                      attemptLog>>

(***************************************************************************)
(* Continuations.  A timer fires once the clock has reached its due time;  *)
(* a remote reply arrives at any time.  Timers and requests are not        *)
(* cancelled when the component unmounts; React then drops the state       *)
(* updates, while requests and session storage writes still take effect.   *)
(***************************************************************************)
\* A state update of the component: dropped once it is unmounted.
SetState(new, old) == IF Mounted THEN new ELSE old

Due(t) == now >= t.due

\* setTimeout(() => setMessage(null), FEEDBACK_DELAY)
ClearMessage ==
    \E i \in 1..Len(tasks) :
       /\ tasks[i].kind = "clearMessage"
       /\ Due(tasks[i])
       /\ tasks' = RemoveAt(tasks, i)
       /\ message' = SetState("null", message)
       /\ UNCHANGED <<currentWord, input, results, wordCount, loading, error,
                      difficulty, accuracy, totalMistakes, childData,
                      isGeneratingWord, startTime, phase, analysis, savingOnClose,
                      storage, route, effectPending, now, requests, history>>

\* The accuracy generateNextWord computes from the results it captured.
correctShare(rs) ==
    IF Len(rs) > 0
    THEN Frac(Cardinality({k \in 1..Len(rs) : rs[k].correct}) * 100, Len(rs))
    ELSE <<100, 1>>

\* The difficulty generateNextWord sets, if any, given the one it captured.
adjustedDifficulty(acc, captured, current) ==
    IF FracGeq(acc, 90) /\ captured /= "hard" THEN "hard"
    ELSE IF FracGeq(acc, 70) /\ FracLt(acc, 90) /\ captured /= "medium" THEN "medium"
    ELSE IF FracLt(acc, 70) /\ captured /= "easy" THEN "easy"
    ELSE current

\* parseInt(sessionStorage.getItem('targetedWordIndex_...') || '0')
storedIndex == IF storage.targetedWordIndex = None THEN 0 ELSE storage.targetedWordIndex[1]

\* generateNextWord takes the stored targeted word when there is one left.
UsesStoredWord(t) ==
    /\ storage.targetedWords /= None
    /\ t.phase = "targeted"
    /\ storedIndex < Len(storage.targetedWords[1])

\* generateNextWord, up to its await, run by the timer handleSubmit set.
GenerateNextWord ==
    \E i \in 1..Len(tasks) :
       LET t == tasks[i]
           acc == correctShare(t.results)
       IN  /\ t.kind = "nextWordTimer"
           /\ Due(t)
           /\ isGeneratingWord' = SetState(TRUE, isGeneratingWord)
           /\ error' = SetState("null", error)
           /\ currentWord' = SetState(<<>>, currentWord)
           /\ accuracy' = SetState(acc, accuracy)
           /\ difficulty' = SetState(adjustedDifficulty(acc, t.difficulty, difficulty),
                                     difficulty)
           /\ IF UsesStoredWord(t)
              THEN /\ tasks' = Append(RemoveAt(tasks, i),
                          [kind |-> "storedWordDelay", due |-> now + WORD_DISPLAY_DELAY,
                           word |-> storage.targetedWords[1][storedIndex + 1],
                           index |-> storedIndex])
                   /\ UNCHANGED requests
              ELSE /\ tasks' = Append(RemoveAt(tasks, i), [kind |-> "nextWord"])
                   /\ requests' = Append(requests,
                          [kind |-> "generate-next-word", typingHistory |-> t.results,
                           phase |-> t.phase])
           /\ lastOp' = "generateNextWord"
           /\ UNCHANGED <<input, results, wordCount, loading, totalMistakes, childData,
                          message, startTime, phase, analysis, savingOnClose, storage,
                          route, effectPending, now, displayedAt, submitted, attemptLog>>

\* generateNextWord after the display delay of a stored targeted word.
StoredWordShown ==
    \E i \in 1..Len(tasks) :
       LET t == tasks[i]
       IN  /\ t.kind = "storedWordDelay"
           /\ Due(t)
           /\ tasks' = RemoveAt(tasks, i)
           /\ currentWord' = SetState(t.word, currentWord)
           /\ storage' = [storage EXCEPT !.targetedWordIndex = Some(t.index + 1)]
           /\ isGeneratingWord' = SetState(FALSE, isGeneratingWord)
           /\ startTime' = SetState(now, startTime)
           /\ displayedAt' = now
           /\ lastOp' = "storedWordShown"
           /\ UNCHANGED <<input, results, wordCount, loading, error, difficulty,
                          accuracy, totalMistakes, childData, message, phase, analysis,
                          savingOnClose, route, effectPending, now, requests,
                          submitted, attemptLog>>

\* generateNextWord after the reply of the word service, or its catch.
NextWordResolve ==
    \E i \in 1..Len(tasks) :
       /\ tasks[i].kind = "nextWord"
       /\ tasks' = RemoveAt(tasks, i)
       /\ \/ \E w \in ServerWords :
                /\ currentWord' = SetState(w, currentWord)
                /\ lastOp' = "nextWordShown"
                /\ UNCHANGED error
          \/ \E e \in {"Failed to generate word", "Network error"},
                k \in 1..Len(fallbackWords) :
                /\ error' = SetState(e, error)
                /\ currentWord' = SetState(fallbackWords[k], currentWord)
                /\ lastOp' = "fallbackWordShown"
       /\ isGeneratingWord' = SetState(FALSE, isGeneratingWord)
       /\ displayedAt' = now
       /\ UNCHANGED <<input, results, wordCount, loading, difficulty, accuracy,
                      totalMistakes, childData, message, startTime, phase, analysis,
                      savingOnClose, storage, route, effectPending, now, requests,
                      submitted, attemptLog>>

(***************************************************************************)
(* handleSubmit after the first set: the analysis, the targeted words and  *)
(* the reset for the targeted set.                                         *)
(***************************************************************************)
\* After the thinking delay the analysis request goes out with newResults.
AnalysisRequest ==
    \E i \in 1..Len(tasks) :
       LET t == tasks[i]
       IN  /\ t.kind = "analysisDelay"
           /\ Due(t)
           /\ tasks' = Append(RemoveAt(tasks, i), [kind |-> "analysis"])
           /\ requests' = Append(requests,
                  [kind |-> "analyze-typing-results", results |-> t.newResults])
           /\ lastOp' = "analysisRequested"
           /\ UNCHANGED <<reactState, storage, route, effectPending, now,
                          displayedAt, submitted, attemptLog>>

\* The reply of the analysis service: a success (and the targeted-words
\* request), a reply without success (nothing more happens), or a throw.
AnalysisResolve ==
    \E i \in 1..Len(tasks) :
       /\ tasks[i].kind = "analysis"
       /\ \/ \E d \in Diagnoses :
                /\ analysis' = SetState(Some(d), analysis)
                /\ message' = SetState("firstSetCompleted", message)
                /\ tasks' = Append(RemoveAt(tasks, i), [kind |-> "targetedWords"])
                /\ requests' = Append(requests,
                       [kind |-> "generate-targeted-words", analysis |-> d])
                /\ lastOp' = "analysisSucceeded"
                /\ UNCHANGED error
          \/ /\ tasks' = RemoveAt(tasks, i)
             /\ lastOp' = "analysisNoSuccess"
             /\ UNCHANGED <<analysis, message, requests, error>>
          \/ /\ tasks' = RemoveAt(tasks, i)
             /\ error' = SetState("Failed to analyze results and generate targeted words",
                                  error)
             /\ lastOp' = "analysisThrew"
             /\ UNCHANGED <<analysis, message, requests>>
       /\ UNCHANGED <<currentWord, input, results, wordCount, loading, difficulty,
                      accuracy, totalMistakes, childData, isGeneratingWord, startTime,
                      phase, savingOnClose, storage, route, effectPending, now,
                      displayedAt, submitted, attemptLog>>

\* The reply of the targeted-words service.
TargetedWordsResolve ==
    \E i \in 1..Len(tasks) :
       /\ tasks[i].kind = "targetedWords"
       /\ \/ \E ws \in ServerBatches :
                /\ tasks' = Append(RemoveAt(tasks, i),
                       [kind |-> "targetedShowDelay", due |-> now + FEEDBACK_DELAY,
                        words |-> ws])
                /\ lastOp' = "targetedWordsSucceeded"
                /\ UNCHANGED error
          \/ /\ tasks' = RemoveAt(tasks, i)
             /\ lastOp' = "targetedWordsNoSuccess"
             /\ UNCHANGED error
          \/ /\ tasks' = RemoveAt(tasks, i)
             /\ error' = SetState("Failed to analyze results and generate targeted words",
                                  error)
             /\ lastOp' = "targetedWordsThrew"
       /\ UNCHANGED <<currentWord, input, results, wordCount, loading, difficulty,
                      accuracy, totalMistakes, childData, message, isGeneratingWord,
                      startTime, phase, analysis, savingOnClose, storage, route,
                      effectPending, now, requests, displayedAt, submitted, attemptLog>>

\* After the feedback delay: the words and the index go to session storage,
\* the updater of setResults stores the results it finds as the first set
\* and empties them, and the targeted set begins.
StartTargeted ==
    \E i \in 1..Len(tasks) :
       LET t == tasks[i]
       IN  /\ t.kind = "targetedShowDelay"
           /\ Due(t)
           /\ tasks' = Append(RemoveAt(tasks, i),
                  [kind |-> "firstTargetedDelay", due |-> now + WORD_DISPLAY_DELAY,
                   words |-> t.words])
           /\ storage' = [storage EXCEPT
                  !.targetedWords = Some(t.words),
                  !.targetedWordIndex = Some(0),
                  !.firstSetResults = SetState(Some(results), @)]
           /\ results' = SetState(<<>>, results)
           /\ wordCount' = SetState(0, wordCount)
           /\ phase' = SetState("targeted", phase)
           /\ isGeneratingWord' = SetState(TRUE, isGeneratingWord)
           /\ lastOp' = "targetedStarted"
           /\ UNCHANGED <<currentWord, input, loading, error, difficulty, accuracy,
                          totalMistakes, childData, message, startTime, analysis,
                          savingOnClose, route, effectPending, now, requests,
                          displayedAt, submitted, attemptLog>>

\* words[0] of a batch; undefined (no word) when the batch is empty.
firstWordOf(ws) == IF Len(ws) > 0 THEN ws[1] ELSE <<>>

\* After the display delay the first targeted word is shown and timed.
FirstTargetedShown ==
    \E i \in 1..Len(tasks) :
       LET t == tasks[i]
       IN  /\ t.kind = "firstTargetedDelay"
           /\ Due(t)
           /\ tasks' = RemoveAt(tasks, i)
           /\ currentWord' = SetState(firstWordOf(t.words), currentWord)
           /\ isGeneratingWord' = SetState(FALSE, isGeneratingWord)
           /\ startTime' = SetState(now, startTime)
           /\ displayedAt' = now
           /\ lastOp' = "firstTargetedShown"
           /\ UNCHANGED <<input, results, wordCount, loading, error, difficulty,
                          accuracy, totalMistakes, childData, message, phase, analysis,
                          savingOnClose, storage, route, effectPending, now, requests,
                          submitted, attemptLog>>

(***************************************************************************)
(* handleSubmit after the second set: the merge and saveResults.           *)
(***************************************************************************)
\* JSON.parse(sessionStorage.getItem('firstSetResults_...') || '[]')
firstSetResults == IF storage.firstSetResults = None THEN <<>> ELSE storage.firstSetResults[1]

\* [...firstSetResults, ...newResults]
allResultsOf(newResults) == firstSetResults \o newResults

\* After the thinking delay: the merge, and saveResults up to its await.
SaveRequest ==
    \E i \in 1..Len(tasks) :
       LET t == tasks[i]
       IN  /\ t.kind = "finishDelay"
           /\ Due(t)
           /\ tasks' = Append(RemoveAt(tasks, i), [kind |-> "save"])
           /\ loading' = SetState(TRUE, loading)
           /\ requests' = Append(requests,
                  [kind |-> "save-typing-results", results |-> allResultsOf(t.newResults),
                   analysis |-> t.analysis, by |-> "finish"])
           /\ lastOp' = "saveRequested"
           /\ UNCHANGED <<currentWord, input, results, wordCount, error, difficulty,
                          accuracy, totalMistakes, childData, message, isGeneratingWord,
                          startTime, phase, analysis, savingOnClose, storage, route,
                          effectPending, now, displayedAt, submitted, attemptLog>>

\* The three session storage keys handleSubmit removes after saveResults.
clearedStorage ==
    [storage EXCEPT !.targetedWords = None, !.targetedWordIndex = None,
                    !.firstSetResults = None]

\* saveResults after the reply (saved, refused, or a throw), and then the
\* clean-up of session storage that follows it in handleSubmit.
SaveResolve ==
    \E i \in 1..Len(tasks) :
       /\ tasks[i].kind = "save"
       /\ \/ \E fa \in {None, Some("finalAnalysis")} :
                /\ analysis' = SetState(IF fa = None THEN analysis ELSE fa, analysis)
                /\ message' = SetState("saved", message)
                /\ tasks' = Append(RemoveAt(tasks, i),
                       [kind |-> "navigateTimer", due |-> now + NAVIGATE_DELAY])
                /\ lastOp' = "saveSucceeded"
                /\ UNCHANGED loading
          \/ \E m \in {"Failed to save results", "Network error while saving results"} :
                /\ message' = SetState(m, message)
                /\ loading' = SetState(FALSE, loading)
                /\ tasks' = RemoveAt(tasks, i)
                /\ lastOp' = "saveFailed"
                /\ UNCHANGED analysis
       /\ storage' = clearedStorage
       /\ UNCHANGED <<currentWord, input, results, wordCount, error, difficulty,
                      accuracy, totalMistakes, childData, isGeneratingWord, startTime,
                      phase, savingOnClose, route, effectPending, now, requests,
                      displayedAt, submitted, attemptLog>>

\* setTimeout(() => navigate('/landing'), 3000)
NavigateAfterSave ==
    \E i \in 1..Len(tasks) :
       /\ tasks[i].kind = "navigateTimer"
       /\ Due(tasks[i])
       /\ tasks' = RemoveAt(tasks, i)
       /\ route' = "/landing"
       /\ lastOp' = "navigated"
       /\ UNCHANGED <<reactState, storage, effectPending, now, requests,
                      displayedAt, submitted, attemptLog>>

(***************************************************************************)
(* The specification: the steps the component takes from a mount.          *)
(*                                                                         *)
(* startTime is null after the useState initialisers and is set only by    *)
(* StoredWordShown and FirstTargetedShown, which handleSubmit must first   *)
(* start; handleSubmit returns at its guard while startTime is null.  So   *)
(* from a mount no continuation below is ever started: Next lists the      *)
(* steps that occur, SpecWhole adds every continuation, and WholeIsNext    *)
(* (checked under SpecWhole) states that the two have the same behaviours. *)
(***************************************************************************)
Next ==
    \/ Tick
    \/ Mount
    \/ InitialWordResolve
    \/ TypeInput
    \/ HandleSubmit
    \/ SubmitBlocked
    \/ CloseClick

Spec == Init /\ [][Next]_vars

(***************************************************************************)
(* The whole component: every handler and every continuation.              *)
(***************************************************************************)
Continue ==
    \/ CloseSaveResolve
    \/ ClearMessage
    \/ GenerateNextWord
    \/ StoredWordShown
    \/ NextWordResolve
    \/ AnalysisRequest
    \/ AnalysisResolve
    \/ TargetedWordsResolve
    \/ StartTargeted
    \/ FirstTargetedShown
    \/ SaveRequest
    \/ SaveResolve
    \/ NavigateAfterSave

NextWhole == Next \/ Continue

SpecWhole == Init /\ [][NextWhole]_vars

\* No step of the whole component is a step of a continuation that Next
\* leaves out: handleSubmit never passes its guard, so it starts none.
WholeIsNext == [][Next]_vars

(***************************************************************************)
(* The scoring of one word, lines 173-196 of handleSubmit, applied to      *)
(* every target word and every typed text of at most MaxLen characters.    *)
(***************************************************************************)
ScoreAlphabet == {"a", "b", "C", " "}

RECURSIVE TextsOfLen(_)
TextsOfLen(n) ==
    IF n = 0 THEN {<<>>}
    ELSE {Append(t, c) : t \in TextsOfLen(n - 1), c \in ScoreAlphabet}

TextsUpTo(n) == UNION {TextsOfLen(k) : k \in 0..n}

\* The state of a mounted component with a word on display and a text typed.
InitMistakes ==
    /\ currentWord \in {w \in TextsUpTo(MaxLen) : w /= <<>>}
    /\ input \in {t \in TextsUpTo(MaxLen) : trim(t) /= <<>>}
    /\ results = <<>>
    /\ wordCount = 0
    /\ loading = FALSE
    /\ error = "null"
    /\ difficulty = "easy"
    /\ accuracy = <<100, 1>>
    /\ totalMistakes = 0
    /\ childData = TRUE
    /\ message = "null"
    /\ isGeneratingWord = FALSE
    /\ startTime = 0
    /\ phase = "initial"
    /\ analysis = None
    /\ savingOnClose = FALSE
    /\ storage = [childData |-> "typing", targetedWords |-> None,
                  targetedWordIndex |-> None, firstSetResults |-> None]
    /\ route = "game"
    /\ effectPending = FALSE
    /\ now = TickMs
    /\ tasks = <<>>
    /\ requests = <<>>
    /\ displayedAt = TickMs
    /\ submitted = 0
    /\ attemptLog = <<>>
    /\ lastOp = "typed"

\* The entry handleSubmit builds for the word and the text, and the count
\* of mistakes it adds to the total.
ScoreOnce ==
    /\ results = <<>>
    /\ LET entry == entryOf(currentWord, input, startTime, now)
       IN  /\ results' = <<entry>>
           /\ totalMistakes' = totalMistakes + entry.mistakes
    /\ lastOp' = "scored"
    /\ UNCHANGED <<currentWord, input, wordCount, loading, error, difficulty,
                   accuracy, childData, message, isGeneratingWord, startTime, phase,
                   analysis, savingOnClose, storage, route, effectPending, now,
                   tasks, requests, displayedAt, submitted, attemptLog>>

SpecMistakes == InitMistakes /\ [][ScoreOnce]_vars

(***************************************************************************)
(* The accuracy over a run of attempts: the update of handleSubmit         *)
(* (lines 186-201) and the recomputation of generateNextWord (lines        *)
(* 99-112), applied in any order to words and texts that include a text    *)
(* longer than its word.                                                   *)
(***************************************************************************)
ScoredWords == {Cat, <<"a">>}
ScoredTexts == {Cat, <<"s", "o", "n">>, <<"b", "b", "b", "b">>, <<"A">>}

InitScoring ==
    /\ currentWord \in ScoredWords
    /\ input = <<>>
    /\ results = <<>>
    /\ wordCount = 0
    /\ loading = FALSE
    /\ error = "null"
    /\ difficulty = "easy"
    /\ accuracy = <<100, 1>>
    /\ totalMistakes = 0
    /\ childData = TRUE
    /\ message = "null"
    /\ isGeneratingWord = FALSE
    /\ startTime = 0
    /\ phase = "initial"
    /\ analysis = None
    /\ savingOnClose = FALSE
    /\ storage = [childData |-> "typing", targetedWords |-> None,
                  targetedWordIndex |-> None, firstSetResults |-> None]
    /\ route = "game"
    /\ effectPending = FALSE
    /\ now = TickMs
    /\ tasks = <<>>
    /\ requests = <<>>
    /\ displayedAt = TickMs
    /\ submitted = 0
    /\ attemptLog = <<>>
    /\ lastOp = "init"

\* handleSubmit past its guard: the entry, the total of mistakes, the
\* rolling average and the count of words, for the word on display and a
\* typed text.
ScoreAttempt ==
    /\ Len(results) < MaxScored
    /\ \E text \in ScoredTexts :
          LET entry == entryOf(currentWord, text, startTime, now)
          IN  /\ results' = Append(results, entry)
              /\ totalMistakes' = totalMistakes + entry.mistakes
              /\ accuracy' = rollingAverage(accuracy,
                                 newAccuracyOf(entry.mistakes, Len(toLowerCase(currentWord))))
              /\ attemptLog' = Append(attemptLog, entry)
    /\ wordCount' = wordCount + 1
    /\ submitted' = submitted + 1
    /\ input' = <<>>
    /\ lastOp' = "scored"
    /\ UNCHANGED <<currentWord, loading, error, difficulty, childData, message,
                   isGeneratingWord, startTime, phase, analysis, savingOnClose,
                   storage, route, effectPending, now, tasks, requests, displayedAt>>

\* generateNextWord up to its request: the accuracy and the difficulty from
\* the results its render captured, which are a prefix of the results.
RecomputeAccuracy ==
    /\ results /= <<>>
    /\ \E n \in 0..Len(results), word \in ScoredWords :
          LET acc == correctShare(SubSeq(results, 1, n))
          IN  /\ accuracy' = acc
              /\ difficulty' = adjustedDifficulty(acc, difficulty, difficulty)
              /\ currentWord' = word
    /\ lastOp' = "recomputed"
    /\ UNCHANGED <<input, results, wordCount, loading, error, totalMistakes,
                   childData, message, isGeneratingWord, startTime, phase, analysis,
                   savingOnClose, storage, route, effectPending, now, tasks, requests,
                   displayedAt, submitted, attemptLog>>

SpecScoring == InitScoring /\ [][ScoreAttempt \/ RecomputeAccuracy]_vars

(***************************************************************************)
(* Properties.                                                             *)
(***************************************************************************)
\* The submissions the user made on a displayed word with a non-empty text
\* are counted in submitted; attemptLog holds every attempt handleSubmit
\* recorded.

\* C1: every submission of a non-empty input for a displayed word is scored
\* and recorded as an attempt (the step the session needs to ever complete).
C1_EverySubmissionRecorded == Len(attemptLog) = submitted

\* C2: after a failed word request, here the first of the session, the
\* current word is a member of the fallback pool.
C2_FailedRequestFallsBack ==
    lastOp = "initialWordFailed" =>
        \E k \in 1..Len(fallbackWords) : currentWord = fallbackWords[k]

DifferingPositions(a, b) ==
    {i \in 1..Max(Len(a), Len(b)) : i > Len(a) \/ i > Len(b) \/ a[i] /= b[i]}

\* C13: the mistake count of an attempt is the number of positions at which
\* the lower-cased target and the normalized input differ, so it is at least
\* the number of characters a shorter input lacks.
C13_MistakesAreDifferingPositions ==
    \A k \in 1..Len(results) :
       LET target == toLowerCase(results[k].word)
           typed == results[k].input
       IN  /\ results[k].mistakes = Cardinality(DifferingPositions(target, typed))
           /\ Len(typed) < Len(target) =>
                 results[k].mistakes >= Len(target) - Len(typed)

\* A shorter input with a wrong character has been scored.
C13_Witness ==
    /\ lastOp = "scored"
    /\ Len(results[1].input) < Len(results[1].word)
    /\ results[1].mistakes > Len(results[1].word) - Len(results[1].input)

\* C14: the rolling accuracy is between 0 and 100 inclusive after any
\* number of attempts and word requests.
C14_AccuracyInRange ==
    /\ accuracy[2] > 0
    /\ 0 <= accuracy[1]
    /\ accuracy[1] <= 100 * accuracy[2]

\* Two attempts have been scored, the last with more mistakes than its word
\* has characters, and the rolling accuracy has fallen below 50.
C14_Witness ==
    /\ lastOp = "scored"
    /\ Len(results) >= 2
    /\ results[Len(results)].mistakes > Len(results[Len(results)].word)
    /\ FracLt(accuracy, 50)

\* The tier of an accuracy: hard from 90, medium from 70, easy below.
TierOf(acc) ==
    IF FracGeq(acc, 90) THEN "hard"
    ELSE IF FracGeq(acc, 70) THEN "medium"
    ELSE "easy"

\* A submission of a non-blank text for the word on display.
AttemptStep == HandleSubmit /\ currentWord /= <<>> /\ trim(input) /= <<>>

C16_RejectedSubmissionChangesNothing ==
    [][((HandleSubmit \/ SubmitBlocked) /\ (currentWord = <<>> \/ trim(input) = <<>>))
         => UNCHANGED <<reactState, tasks, requests, storage, route, attemptLog>>]_vars

\* A text was submitted while no word was set, and was rejected.
C16_Witness ==
    /\ lastOp = "submitRejected"
    /\ currentWord = <<>>
    /\ trim(input) /= <<>>

\* A request or a timer that will deliver a word is waiting.
WordFetchPending ==
    \E i \in 1..Len(tasks) :
       tasks[i].kind \in {"initialWord", "nextWord", "nextWordTimer", "storedWordDelay",
                          "targetedWords", "targetedShowDelay", "firstTargetedDelay"}

\* C18: in a running session whose phase is not analyzing, exactly one of
\* these holds: a current word is set, or a word fetch is pending.
C18_WordOrFetch ==
    (Mounted /\ childData /\ ~effectPending /\ phase /= "analyzing") =>
        ((currentWord /= <<>>) /= WordFetchPending)

\* clamp(0, 100, (1 - mistakeCount / len(target)) * 100) of a word and a text.
perWordAccuracy(word, text) ==
    LET target == toLowerCase(word)
        count == Cardinality(DifferingPositions(target, toLowerCase(trim(text))))
    IN  IF count >= Len(target) THEN <<0, 1>>
        ELSE Frac((Len(target) - count) * 100, Len(target))

====
